---- MODULE Spec2Model ----
(***************************************************************************)
(* A model of case.py, the script that builds the bow-thruster enclosure   *)
(* with CadQuery and exports it as an STL mesh.                            *)
(*                                                                         *)
(* Lengths are integers in units of 1/10000 mm (0.1 micrometre), so that   *)
(* every literal of the script and every halving it performs is exact:     *)
(* 76.2 mm is 762000, 3.175 mm is 31750.  The IEEE doubles the script      *)
(* computes print as the same decimals (82.2, 56.8, 31.575, 34.6, 21.9).   *)
(*                                                                         *)
(* A run is one execution of the module body.  Each statement (or loop     *)
(* iteration) is one action.  A solid is modelled as the chain of kernel   *)
(* operations that produced it (a CSG term): the box, the two fillets,     *)
(* and the tool shapes cut from or united with it.                         *)
(*                                                                         *)
(* Python resolves a global name in the namespace the module body is       *)
(* executed in.  `python case.py` starts that namespace without            *)
(* slot_height and slot_depth; a host that executes the file in a          *)
(* prepared namespace (runpy.run_path(init_globals=...), exec, an          *)
(* interactive session) may start it with either name bound.  Init draws   *)
(* the starting namespace from HostNamespaces and records it in host.      *)
(***************************************************************************)
EXTENDS Integers, Sequences, FiniteSets, TLC

\* ------------------------------------------------------------------ bounds
NumRuns == 2
Runs == 1..NumRuns

\* values a host may bind slot_height / slot_depth to (4 mm)
HostDims == {40000}

\* ------------------------------------------------------- script literals
board_length == 762000
board_width == 508000
standoff_height == 31750
internal_height == 254000
lid_thickness == 30000
wall_thickness == 30000
mount_offset == 35000
post_diameter == 60000
slot_width == 300000
FilletVerticalRadius == 30000
FilletHorizontalRadius == 15000
StlPath == "bow_thruster_enclosure_final.stl"
SuccessMessage == "STL written: bow_thruster_enclosure_final.stl"

\* the two names the script reads and never binds
SlotNames == {"slot_height", "slot_depth"}

\* ------------------------------------------------------------ namespaces
\* A namespace is a function from the bound names to their values.
Bind(f, g) == [n \in (DOMAIN f) \cup (DOMAIN g) |-> IF n \in DOMAIN g THEN g[n] ELSE f[n]]

Defined(f, n) == n \in DOMAIN f

HostNamespaces ==
    UNION {[D -> HostDims] : D \in SUBSET SlotNames}

\* Python's true division, exact at this scale for every operand the script halves
Half(v) == v \div 2

\* lines 4-9
Dimensions ==
    [board_length |-> board_length, board_width |-> board_width,
     standoff_height |-> standoff_height, internal_height |-> internal_height,
     lid_thickness |-> lid_thickness, wall_thickness |-> wall_thickness]

\* lines 11-13
OuterLength(f) == f["board_length"] + 2 * f["wall_thickness"]
\* variant: one wall instead of two
OuterWidthM(f) == f["board_width"] + f["wall_thickness"]
OuterWidth(f) == f["board_width"] + 2 * f["wall_thickness"]
\* variant: the standoff height left out of the sum
OuterHeightM(f) == f["internal_height"] + f["lid_thickness"]
OuterHeight(f) == f["standoff_height"] + f["internal_height"] + f["lid_thickness"]

Derived(f) ==
    [outer_length |-> OuterLength(f), outer_width |-> OuterWidth(f),
     outer_height |-> OuterHeight(f)]

\* variant: a mount offset of 2.0, which puts the posts into the walls
StandoffParamsM == [mount_offset |-> 20000, post_diameter |-> post_diameter]
\* lines 32-33
StandoffParams == [mount_offset |-> mount_offset, post_diameter |-> post_diameter]

\* variant: the script binds the two slot dimensions it reads
SlotParamsM == [slot_width |-> slot_width, slot_height |-> 40000, slot_depth |-> 40000]
\* line 45
SlotParams == [slot_width |-> slot_width]

\* ---------------------------------------------------------------- solids
\* A workplane: a named plane through the origin moved by offset along its
\* normal, with its local origin moved to (cx, cy) in its local axes.
\* Workplane("XY"): local x, y are global X, Y and the normal is +Z.
\* Workplane("YZ"): local x, y are global Y, Z and the normal is +X.
Workplane(plane, offset, cx, cy) ==
    [plane |-> plane, offset |-> offset, cx |-> cx, cy |-> cy]

\* A tool shape: a sketch of size (sx, sy) centred on a workplane's local
\* origin, extruded by h along the normal.  kind is "rect" or "circle"
\* (sx = sy = diameter).
Shape(kind, w, sx, sy, h) ==
    [kind |-> kind, plane |-> w.plane, offset |-> w.offset, cx |-> w.cx, cy |-> w.cy,
     sx |-> sx, sy |-> sy, h |-> h]

\* line 16: Workplane("XY").box(l, w, h) is centred on the origin in all three axes
BoxOp(f) ==
    [op |-> "box", what |-> "shell",
     sx |-> f["outer_length"], sy |-> f["outer_width"], sz |-> f["outer_height"]]

\* lines 19-20
FilletOp(sel, radius) == [op |-> "fillet", what |-> sel, radius |-> radius]

\* lines 24-25
InteriorPlane(f) == Workplane("XY", f["lid_thickness"], 0, 0)

\* lines 23-28
Interior(f) ==
    Shape("rect", InteriorPlane(f), f["board_length"], f["board_width"],
          f["standoff_height"] + f["internal_height"])

CutOp(what, s) == [op |-> "cut", what |-> what, shape |-> s]
UnionOp(what, s) == [op |-> "union", what |-> what, shape |-> s]

\* lines 34-35: the two lists the nested loop ranges over
\* variant: the far post placed without the mount offset
StandoffXsM(f) ==
    <<f["wall_thickness"] + f["mount_offset"], f["outer_length"] - f["wall_thickness"]>>
StandoffXs(f) ==
    <<f["wall_thickness"] + f["mount_offset"],
      f["outer_length"] - f["wall_thickness"] - f["mount_offset"]>>
StandoffYs(f) ==
    <<f["wall_thickness"] + f["mount_offset"],
      f["outer_width"] - f["wall_thickness"] - f["mount_offset"]>>

\* variant: the loops not nested
StandoffCountM(f) == Len(StandoffXs(f))
\* lines 34-35: the body runs once per pair (x, y)
StandoffCount(f) == Len(StandoffXs(f)) * Len(StandoffYs(f))

\* lines 37-39: the workplane of iteration k (0-based, x outer loop, y inner loop)
StandoffPlane(f, k) ==
    Workplane("XY", f["lid_thickness"],
              StandoffXs(f)[(k \div Len(StandoffYs(f))) + 1] - Half(f["outer_length"]),
              StandoffYs(f)[(k % Len(StandoffYs(f))) + 1] - Half(f["outer_width"]))

\* lines 36-42: the cylinder of iteration k
Standoff(f, k) ==
    Shape("circle", StandoffPlane(f, k), f["post_diameter"], f["post_diameter"],
          f["standoff_height"])

\* lines 47-48
LongXCenters == <<-200000, 200000>>
LongYSigns == <<-1, 1>>
LongSlotCount == Len(LongXCenters) * Len(LongYSigns)

\* variant: half of the whole cavity height above the floor
SlotZM(f) == f["lid_thickness"] + Half(f["standoff_height"] + f["internal_height"])
\* line 52 and line 65: the height the slot sketches are placed at
SlotZ(f) == f["lid_thickness"] + f["standoff_height"] + Half(f["internal_height"])

\* line 49
LongYPos(f, ySign) ==
    (Half(f["outer_width"]) + ySign * Half(f["wall_thickness"])) * ySign

\* the y_sign of iteration k (0-based, x_center outer loop, y_sign inner loop)
LongYSign(k) == LongYSigns[(k % Len(LongYSigns)) + 1]

\* lines 51-53: the workplane of iteration k, positioned before rect's
\* arguments are evaluated
LongSlotPlane(f, k) ==
    Workplane("XY", SlotZ(f), LongXCenters[(k \div Len(LongYSigns)) + 1],
              LongYPos(f, LongYSign(k)))

\* lines 50-56: the slot of iteration k (needs slot_height and slot_depth bound)
LongSlot(f, k) ==
    Shape("rect", LongSlotPlane(f, k), f["slot_width"], f["slot_height"],
          f["slot_depth"] * LongYSign(k))

\* line 60
SideYCenters == <<-150000, 150000>>
SideSlotCount == Len(SideYCenters)

\* lines 61-65: the workplane of iteration k, positioned before rect's
\* arguments are evaluated
SideSlotPlane(f, k) ==
    Workplane("YZ", Half(f["outer_length"]), SideYCenters[k + 1], SlotZ(f))

\* lines 62-68
SideSlot(f, k) ==
    Shape("rect", SideSlotPlane(f, k), f["slot_height"], f["slot_width"], f["slot_depth"])

\* The names a slot construction evaluates, in evaluation order: rect's
\* arguments before extrude's.  lines 54-55 and 66-67.
SlotReads == <<"slot_width", "slot_height", "slot_depth">>

\* the first name of a sequence that is not bound, or "" when all are
FirstUnbound(f, names) ==
    LET bad == {i \in 1..Len(names) : ~Defined(f, names[i])}
    IN  IF bad = {} THEN ""
        ELSE names[CHOOSE i \in bad : \A j \in bad : i <= j]

NameError(n) == "NameError: name '" \o n \o "' is not defined"

\* ----------------------------------------------------------------- state
VARIABLES
    host,       \* host[r]: the namespace run r was started in
    ns,         \* ns[r]: the module namespace of run r
    pc,         \* pc[r]: the statement run r executes next
    it,         \* it[r]: iterations completed of the loop run r is in
    box,        \* box[r]: the solid bound to `box`, as its chain of operations
    interior,   \* interior[r]: <<shape>> once `interior` is bound, else <<>>
    wp,         \* wp[r]: <<workplane>> last positioned by run r, else <<>>
    err,        \* err[r]: the uncaught exception that ended run r, or ""
    out,        \* out[r]: the lines run r printed
    writes,     \* writes[r]: how many times run r wrote the STL file
    fs          \* the file at StlPath: <<solid>> when it exists, else <<>>

vars == <<host, ns, pc, it, box, interior, wp, err, out, writes, fs>>

Init ==
    /\ host \in [Runs -> HostNamespaces]
    /\ ns = host
    /\ pc = [r \in Runs |-> "dims"]
    /\ it = [r \in Runs |-> 0]
    /\ box = [r \in Runs |-> <<>>]
    /\ interior = [r \in Runs |-> <<>>]
    /\ wp = [r \in Runs |-> <<>>]
    /\ err = [r \in Runs |-> ""]
    /\ out = [r \in Runs |-> <<>>]
    /\ writes = [r \in Runs |-> 0]
    /\ fs = <<>>

\* lines 4-9
AssignDimensions(r) ==
    /\ pc[r] = "dims"
    /\ ns' = [ns EXCEPT ![r] = Bind(@, Dimensions)]
    /\ pc' = [pc EXCEPT ![r] = "derived"]
    /\ UNCHANGED <<host, it, box, interior, wp, err, out, writes, fs>>

\* lines 11-13
AssignDerived(r) ==
    /\ pc[r] = "derived"
    /\ ns' = [ns EXCEPT ![r] = Bind(@, Derived(@))]
    /\ pc' = [pc EXCEPT ![r] = "box"]
    /\ UNCHANGED <<host, it, box, interior, wp, err, out, writes, fs>>

\* line 16
BuildBox(r) ==
    /\ pc[r] = "box"
    /\ box' = [box EXCEPT ![r] = <<BoxOp(ns[r])>>]
    /\ pc' = [pc EXCEPT ![r] = "fillet_v"]
    /\ UNCHANGED <<host, ns, it, interior, wp, err, out, writes, fs>>

\* line 19
FilletVertical(r) ==
    /\ pc[r] = "fillet_v"
    /\ box' = [box EXCEPT ![r] = Append(@, FilletOp("|Z", FilletVerticalRadius))]
    /\ pc' = [pc EXCEPT ![r] = "fillet_h"]
    /\ UNCHANGED <<host, ns, it, interior, wp, err, out, writes, fs>>

\* line 20
FilletHorizontal(r) ==
    /\ pc[r] = "fillet_h"
    /\ box' = [box EXCEPT ![r] = Append(@, FilletOp("#Z", FilletHorizontalRadius))]
    /\ pc' = [pc EXCEPT ![r] = "interior"]
    /\ UNCHANGED <<host, ns, it, interior, wp, err, out, writes, fs>>

\* lines 23-28
BuildInterior(r) ==
    /\ pc[r] = "interior"
    /\ wp' = [wp EXCEPT ![r] = <<InteriorPlane(ns[r])>>]
    /\ interior' = [interior EXCEPT ![r] = <<Interior(ns[r])>>]
    /\ pc' = [pc EXCEPT ![r] = "cut"]
    /\ UNCHANGED <<host, ns, it, box, err, out, writes, fs>>

\* line 29
CutInterior(r) ==
    /\ pc[r] = "cut"
    /\ box' = [box EXCEPT ![r] = Append(@, CutOp("interior", interior[r][1]))]
    /\ pc' = [pc EXCEPT ![r] = "standoff_params"]
    /\ UNCHANGED <<host, ns, it, interior, wp, err, out, writes, fs>>

\* lines 32-33
AssignStandoffParams(r) ==
    /\ pc[r] = "standoff_params"
    /\ ns' = [ns EXCEPT ![r] = Bind(@, StandoffParams)]
    /\ pc' = [pc EXCEPT ![r] = "standoffs"]
    /\ it' = [it EXCEPT ![r] = 0]
    /\ UNCHANGED <<host, box, interior, wp, err, out, writes, fs>>

\* lines 34-42: one iteration of the nested loop
AddStandoff(r) ==
    /\ pc[r] = "standoffs"
    /\ wp' = [wp EXCEPT ![r] = <<StandoffPlane(ns[r], it[r])>>]
    /\ box' = [box EXCEPT ![r] = Append(@, UnionOp("standoff", Standoff(ns[r], it[r])))]
    /\ IF it[r] + 1 < StandoffCount(ns[r])
         THEN /\ it' = [it EXCEPT ![r] = @ + 1]
              /\ pc' = pc
         ELSE /\ it' = [it EXCEPT ![r] = 0]
              /\ pc' = [pc EXCEPT ![r] = "slot_params"]
    /\ UNCHANGED <<host, ns, interior, err, out, writes, fs>>

\* line 45
AssignSlotParams(r) ==
    /\ pc[r] = "slot_params"
    /\ ns' = [ns EXCEPT ![r] = Bind(@, SlotParams)]
    /\ pc' = [pc EXCEPT ![r] = "long_slots"]
    /\ UNCHANGED <<host, it, box, interior, wp, err, out, writes, fs>>

\* an uncaught exception ends the run (no handler anywhere in the script);
\* the caller states what happens to wp
Raise(r, e) ==
    /\ err' = [err EXCEPT ![r] = e]
    /\ pc' = [pc EXCEPT ![r] = "failed"]
    /\ UNCHANGED <<host, ns, it, box, interior, out, writes, fs>>

\* lines 47-57: one iteration of the nested loop
CutLongSlot(r) ==
    /\ pc[r] = "long_slots"
    /\ wp' = [wp EXCEPT ![r] = <<LongSlotPlane(ns[r], it[r])>>]
    /\ LET missing == FirstUnbound(ns[r], SlotReads)
       IN  IF missing # ""
             THEN Raise(r, NameError(missing))
             ELSE /\ box' = [box EXCEPT ![r] = Append(@, CutOp("long_slot", LongSlot(ns[r], it[r])))]
                  /\ IF it[r] + 1 < LongSlotCount
                       THEN /\ it' = [it EXCEPT ![r] = @ + 1]
                            /\ pc' = pc
                       ELSE /\ it' = [it EXCEPT ![r] = 0]
                            /\ pc' = [pc EXCEPT ![r] = "side_slots"]
                  /\ UNCHANGED <<host, ns, interior, err, out, writes, fs>>

\* lines 60-69: one iteration of the loop
CutSideSlot(r) ==
    /\ pc[r] = "side_slots"
    /\ wp' = [wp EXCEPT ![r] = <<SideSlotPlane(ns[r], it[r])>>]
    /\ LET missing == FirstUnbound(ns[r], SlotReads)
       IN  IF missing # ""
             THEN Raise(r, NameError(missing))
             ELSE /\ box' = [box EXCEPT ![r] = Append(@, CutOp("side_slot", SideSlot(ns[r], it[r])))]
                  /\ IF it[r] + 1 < SideSlotCount
                       THEN /\ it' = [it EXCEPT ![r] = @ + 1]
                            /\ pc' = pc
                       ELSE /\ it' = [it EXCEPT ![r] = 0]
                            /\ pc' = [pc EXCEPT ![r] = "export"]
                  /\ UNCHANGED <<host, ns, interior, err, out, writes, fs>>

\* variant: the export skipped when the file already exists
ExportM(r) ==
    /\ pc[r] = "export"
    /\ IF fs = <<>>
         THEN /\ fs' = <<box[r]>>
              /\ writes' = [writes EXCEPT ![r] = @ + 1]
         ELSE UNCHANGED <<fs, writes>>
    /\ pc' = [pc EXCEPT ![r] = "print"]
    /\ UNCHANGED <<host, ns, it, box, interior, wp, err, out>>
\* line 72: the file is created or overwritten with the mesh of `box`
Export(r) ==
    /\ pc[r] = "export"
    /\ fs' = <<box[r]>>
    /\ writes' = [writes EXCEPT ![r] = @ + 1]
    /\ pc' = [pc EXCEPT ![r] = "print"]
    /\ UNCHANGED <<host, ns, it, box, interior, wp, err, out>>

\* line 73
PrintSuccess(r) ==
    /\ pc[r] = "print"
    /\ out' = [out EXCEPT ![r] = Append(@, SuccessMessage)]
    /\ pc' = [pc EXCEPT ![r] = "done"]
    /\ UNCHANGED <<host, ns, it, box, interior, wp, err, writes, fs>>

Next ==
    \E r \in Runs :
        \/ AssignDimensions(r)
        \/ AssignDerived(r)
        \/ BuildBox(r)
        \/ FilletVertical(r)
        \/ FilletHorizontal(r)
        \/ BuildInterior(r)
        \/ CutInterior(r)
        \/ AssignStandoffParams(r)
        \/ AddStandoff(r)
        \/ AssignSlotParams(r)
        \/ CutLongSlot(r)
        \/ CutSideSlot(r)
        \/ Export(r)
        \/ PrintSuccess(r)

Spec == Init /\ [][Next]_vars

\* ------------------------------------------------------------- geometry
\* What the kernel's primitives occupy, from the arguments they were given.

Min(a, b) == IF a <= b THEN a ELSE b
Max(a, b) == IF a >= b THEN a ELSE b

\* box() is centred on the origin: it spans [-s/2, s/2] on each axis
BoxZMin(b) == 0 - Half(b.sz)
BoxZMax(b) == Half(b.sz)

\* an XY-plane shape spans offset .. offset + h in Z (h may be negative)
ShapeZMin(s) == Min(s.offset, s.offset + s.h)
ShapeZMax(s) == Max(s.offset, s.offset + s.h)

\* an XY-plane sketch is centred on (cx, cy)
ShapeXMin(s) == s.cx - Half(s.sx)
ShapeXMax(s) == s.cx + Half(s.sx)
ShapeYMin(s) == s.cy - Half(s.sy)
ShapeYMax(s) == s.cy + Half(s.sy)

\* the global Z of a workplane's local origin
ZRef(w) == IF w.plane = "XY" THEN w.offset ELSE w.cy

\* the operations of a chain with a given tag
OpsOf(chain, op, what) ==
    {i \in 1..Len(chain) : chain[i].op = op /\ chain[i].what = what}

Hollowed(r) == OpsOf(box[r], "cut", "interior") # {}
Shell(r) == box[r][1]
Cavity(r) == interior[r][1]
Standoffs(r) == {box[r][i].shape : i \in OpsOf(box[r], "union", "standoff")}
Slots(r) ==
    {box[r][i].shape : i \in OpsOf(box[r], "cut", "long_slot") \cup OpsOf(box[r], "cut", "side_slot")}

Stopped(r) == pc[r] \in {"done", "failed"}

\* run r executes the source as given: its starting namespace leaves a
\* name the script reads and never binds unbound
AsGiven(r) == SlotNames \ DOMAIN host[r] # {}

\* --------------------------------------------------------------- claims

\* C1: a run of the source as given (a slot name unbound in its starting
\* namespace) never writes the STL file and never prints: it never gets
\* past the long-side slot loop, cuts no slot, and when it has failed it
\* failed in the first iteration of that loop with a NameError for a slot
\* name.  When every run is of the source as given the file does not exist.
C1_FailsBeforeExport ==
    /\ \A r \in Runs : AsGiven(r) =>
          /\ writes[r] = 0
          /\ out[r] = <<>>
          /\ pc[r] \notin {"side_slots", "export", "print", "done"}
          /\ Slots(r) = {}
          /\ pc[r] = "failed" =>
                /\ it[r] = 0
                /\ err[r] \in {NameError(n) : n \in SlotNames}
    /\ (\A r \in Runs : AsGiven(r)) => fs = <<>>

C1_Witness ==
    \A r \in Runs :
        DOMAIN host[r] = {} /\ pc[r] = "failed" /\ err[r] = NameError("slot_height")

\* C2: once computed, outer_length, outer_width and outer_height are the
\* sums of the script and equal 82.2, 56.8 and 31.575 in every later state.
C2_OuterEnvelope ==
    \A r \in Runs : pc[r] \notin {"dims", "derived"} =>
        /\ ns[r]["outer_length"] = ns[r]["board_length"] + 2 * ns[r]["wall_thickness"]
        /\ ns[r]["outer_length"] = 822000
        /\ ns[r]["outer_width"] = ns[r]["board_width"] + 2 * ns[r]["wall_thickness"]
        /\ ns[r]["outer_width"] = 568000
        /\ ns[r]["outer_height"] =
              ns[r]["standoff_height"] + ns[r]["internal_height"] + ns[r]["lid_thickness"]
        /\ ns[r]["outer_height"] = 315750

C2_Witness ==
    \E r \in Runs : Stopped(r) /\ ns[r]["outer_height"] = 315750

\* C3: after the hollowing cut the cavity footprint is board_length x
\* board_width and the floor under it, from the bottom face of the shell to
\* the bottom of the interior prism, is lid_thickness thick.
C3_FloorIsLidThickness ==
    \A r \in Runs : \A i \in OpsOf(box[r], "cut", "interior") :
        /\ box[r][i].shape.sx = board_length
        /\ box[r][i].shape.sy = board_width
        /\ ShapeZMin(box[r][i].shape) - BoxZMin(Shell(r)) = lid_thickness

\* C4 as stated: the outer dimensions exceed the cavity dimensions by twice
\* the wall thickness in length, width and height.
C4_TwiceWallEveryDimension ==
    \A r \in Runs : Hollowed(r) =>
        /\ Shell(r).sx - Cavity(r).sx = 2 * wall_thickness
        /\ Shell(r).sy - Cavity(r).sy = 2 * wall_thickness
        /\ Shell(r).sz - Cavity(r).h = 2 * wall_thickness

\* C4 as amended: the outer dimensions exceed the cavity dimensions by twice
\* the wall thickness in length and width, and by lid_thickness in height.
C4_TwiceWallInPlan ==
    \A r \in Runs : Hollowed(r) =>
        /\ Shell(r).sx - Cavity(r).sx = 2 * wall_thickness
        /\ Shell(r).sy - Cavity(r).sy = 2 * wall_thickness
        /\ Shell(r).sz - Cavity(r).h = lid_thickness

C4_Witness ==
    \E r \in Runs : Hollowed(r) /\ Cavity(r).h = standoff_height + internal_height

\* C5: the four standoff centres are distinct and closed under mirroring in
\* the X midplane, in the Y midplane and in both.
C5_StandoffsSymmetric ==
    \A r \in Runs :
        LET centres == {<<s.cx, s.cy>> : s \in Standoffs(r)}
        IN  Cardinality(OpsOf(box[r], "union", "standoff")) = 4 =>
               /\ Cardinality(centres) = 4
               /\ \A c \in centres :
                     /\ <<0 - c[1], c[2]>> \in centres
                     /\ <<c[1], 0 - c[2]>> \in centres
                     /\ <<0 - c[1], 0 - c[2]>> \in centres

C5_Witness ==
    \E r \in Runs : Cardinality(OpsOf(box[r], "union", "standoff")) = 4

\* C6: a run that has stopped has written the STL file exactly once and
\* printed exactly one line.
C6_OneFileOneLine ==
    \A r \in Runs : Stopped(r) => writes[r] = 1 /\ Len(out[r]) = 1

SlotPlanes(r) ==
    {Workplane(s.plane, s.offset, s.cx, s.cy) : s \in Slots(r)}
        \cup (IF pc[r] = "failed" THEN {wp[r][1]} ELSE {})

\* C8 as stated: every wire slot is placed at the vertical midpoint of the
\* cavity, halfway between its bottom and its top.
C8_SlotsAtCavityMidpoint ==
    \A r \in Runs : \A w \in SlotPlanes(r) :
        2 * ZRef(w) = ShapeZMin(Cavity(r)) + ShapeZMax(Cavity(r))

\* C8 as amended: every wire slot is placed at lid_thickness +
\* standoff_height + internal_height / 2 (18.875): the cavity bottom plus the
\* standoff height plus half the internal height.
C8_SlotsAtHalfInternalHeight ==
    \A r \in Runs : \A w \in SlotPlanes(r) :
        /\ ZRef(w) = ShapeZMin(Cavity(r)) + standoff_height + Half(internal_height)
        /\ ZRef(w) = 188750

C8_Witness ==
    \E r \in Runs :
        /\ Cardinality(OpsOf(box[r], "cut", "long_slot")) = 4
        /\ Cardinality(OpsOf(box[r], "cut", "side_slot")) = 2

\* the order of the operations of the script, by kind
ExpectedChain ==
    <<<<"box", "shell">>, <<"fillet", "|Z">>, <<"fillet", "#Z">>, <<"cut", "interior">>,
      <<"union", "standoff">>, <<"union", "standoff">>,
      <<"union", "standoff">>, <<"union", "standoff">>,
      <<"cut", "long_slot">>, <<"cut", "long_slot">>,
      <<"cut", "long_slot">>, <<"cut", "long_slot">>,
      <<"cut", "side_slot">>, <<"cut", "side_slot">>>>

\* C9: the operations applied to the solid are always a prefix of: box,
\* fillet |Z (3.0), fillet #Z (1.5), interior cut, four standoff unions, the
\* slot cuts; the file is written only after all of them; and a run that has
\* stopped has applied at least the interior cut and the four unions.
C9_FixedOrder ==
    \A r \in Runs :
        /\ Len(box[r]) <= Len(ExpectedChain)
        /\ \A i \in 1..Len(box[r]) : <<box[r][i].op, box[r][i].what>> = ExpectedChain[i]
        /\ Len(box[r]) >= 2 => box[r][2].radius = 30000
        /\ Len(box[r]) >= 3 => box[r][3].radius = 15000
        /\ Stopped(r) => Len(box[r]) >= 8
        /\ writes[r] > 0 => Len(box[r]) = Len(ExpectedChain)

C9_Witness ==
    \E r1 \in Runs : \E r2 \in Runs :
        /\ pc[r1] = "failed" /\ Len(box[r1]) = 8
        /\ pc[r2] = "done" /\ Len(box[r2]) = 14

\* C10: every standoff is a cylinder of diameter 6.0 and height
\* standoff_height whose footprint lies within the cavity footprint, whose
\* base is on the cavity floor and whose top is below the top of the cavity
\* (the lower of the interior prism's top and the shell's top face).
C10_StandoffsInsideCavity ==
    \A r \in Runs : \A s \in Standoffs(r) :
        /\ s.sx = 60000 /\ s.sy = 60000 /\ s.h = standoff_height
        /\ ShapeXMin(Cavity(r)) <= ShapeXMin(s) /\ ShapeXMax(s) <= ShapeXMax(Cavity(r))
        /\ ShapeYMin(Cavity(r)) <= ShapeYMin(s) /\ ShapeYMax(s) <= ShapeYMax(Cavity(r))
        /\ ShapeZMin(s) = ShapeZMin(Cavity(r))
        /\ ShapeZMin(s) = lid_thickness
        /\ ShapeZMax(s) <= Min(ShapeZMax(Cavity(r)), BoxZMax(Shell(r)))

C10_Witness ==
    \E r \in Runs : Hollowed(r) /\ Cardinality(Standoffs(r)) = 4

====
